---- MODULE Spec2Model ----
(***************************************************************************)
(* A model of the go-maps container library: OrderedMap (hash map plus a   *)
(* sorted key index), EqualSet (linear-scan set over a type with Equals),  *)
(* SeenSet (hash-backed membership table) and the in-place Unique filter.  *)
(*                                                                         *)
(* Every method is an operator from the receiver (and its arguments) to a  *)
(* record [m |-> receiver afterwards, ret |-> returned value,              *)
(* panic |-> whether the Go runtime panics inside the call].  An action    *)
(* applies one such operator to the container in the state and records     *)
(* the call, the state before it and the value it returned.                *)
(*                                                                         *)
(* Positions are 0-based as in Go; sequence s holds Go's s[i] at s[i+1].   *)
(***************************************************************************)
EXTENDS Integers, Sequences, FiniteSets, TLC

\* ------------------------------------------------------------------ bounds

\* Keys of the OrderedMap are 1..MaxKey.
MaxKey == 3

\* Elements of the EqualSet and the SeenSet are 0..MaxElem.
MaxElem == 2

\* Longest sequence given to AddMany, FilterSeen, FilterNotSeen.
MaxInput == 2

\* The EqualSet is not grown beyond this many elements.
MaxElems == 3

\* An iterator is run at most this many times.
MaxRuns == 2

\* Longest slice given to FilterSeen and FilterNotSeen by the caller who keeps it.
MaxFilter == 4

\* Longest slice given to Unique.
MaxUnique == 6

Key == 1..MaxKey

\* The value type V of the OrderedMap is string; Zero is *new(V).
Value == {"a", "b"}
Zero == ""

Elem == 0..MaxElem

\* All sequences over S of length at most n.
SeqUpTo(S, n) == UNION {[1..k -> S] : k \in 0..n}

Range(s) == {s[i] : i \in 1..Len(s)}

VARIABLES
    om,        \* the OrderedMap behind the pointer: [ref, valuesNil, values, keys]
    es,        \* the EqualSet behind the pointer: [ref, elems]
    ss,        \* the SeenSet behind the pointer: [ref, tableNil, table]
    eqKind,    \* which Equals method the element type of the EqualSet has
    snap,      \* the mapping last returned by OrderedMap.Map, as the caller holds it
    it,        \* the iterator last returned by OrderedMap.Entry and its current run
    all,       \* the iterator last returned by EqualSet.All and its current run
    call,      \* the last call made
    pre,       \* the containers as they were before the last call
    ret,       \* the value the last call returned
    panicked,  \* the last call ended in a runtime panic
    input,     \* the slice the caller hands to FilterSeen, FilterNotSeen or Unique
    held,      \* which container the caller's variable of type Set holds
    seeHist    \* what See has returned per value since the last Reset

vars == <<om, es, ss, eqKind, snap, it, all, call, pre, ret, panicked, input, held, seeHist>>

\* ------------------------------------------------------- Go maps and slices

\* m[k] = v on a Go map held as a function.
MapSet(f, k, v) == [x \in (DOMAIN f) \cup {k} |-> IF x = k THEN v ELSE f[x]]

\* delete(m, k)
MapDelete(f, k) == [x \in (DOMAIN f) \ {k} |-> f[x]]

EmptyMap == << >>

\* slices.BinarySearch: the loop  for i < j { h := (i+j)>>1; if x[h] < target
\* { i = h+1 } else { j = h } }
RECURSIVE BinarySearchLoop(_, _, _, _)
BinarySearchLoop(x, target, i, j) ==
    IF i < j
    THEN LET h == (i + j) \div 2
         IN IF x[h + 1] < target
            THEN BinarySearchLoop(x, target, h + 1, j)
            ELSE BinarySearchLoop(x, target, i, h)
    ELSE i

\* slices.BinarySearch(x, target) -> (pos, found)
BinarySearch(x, target) ==
    LET n == Len(x)
        i == BinarySearchLoop(x, target, 0, n)
    IN [pos |-> i, ok |-> (i < n /\ x[i + 1] = target)]

\* Insert with the position ignored: the value is appended.
Insert_AtEnd(s, i, v) == Append(s, v)

\* slices.Insert(s, i, v)
Insert(s, i, v) == SubSeq(s, 1, i) \o <<v>> \o SubSeq(s, i + 1, Len(s))

\* Delete whose result is dropped: the tail is shifted and the freed slots
\* zeroed, but the slice keeps its length.
Delete_ResultDropped(s, i, j) ==
    SubSeq(s, 1, i) \o SubSeq(s, j + 1, Len(s)) \o [k \in 1..(j - i) |-> 0]

\* slices.Delete(s, i, j)
Delete(s, i, j) == SubSeq(s, 1, i) \o SubSeq(s, j + 1, Len(s))

\* ------------------------------------------------------------- OrderedMap

\* A *OrderedMap that is nil.
NilOrderedMap == [ref |-> "nil", valuesNil |-> TRUE, values |-> EmptyMap, keys |-> << >>]

\* The zero value OrderedMap{}: both fields nil.
ZeroOrderedMap == [ref |-> "ptr", valuesNil |-> TRUE, values |-> EmptyMap, keys |-> << >>]

NewOrderedMap == [ref |-> "ptr", valuesNil |-> FALSE, values |-> EmptyMap, keys |-> << >>]

\* A method with a value receiver called through a nil pointer dereferences it.
Outcome(m, r, p) == [m |-> m, ret |-> r, panic |-> p]

OrderedMap_IsEmpty(m) ==
    IF m.ref = "nil" THEN Outcome(m, FALSE, TRUE)
    ELSE Outcome(m, Len(m.keys) = 0, FALSE)

OrderedMap_Size(m) ==
    IF m.ref = "nil" THEN Outcome(m, 0, TRUE)
    ELSE Outcome(m, Len(m.keys), FALSE)

OrderedMap_Reset(m) ==
    IF m.ref = "nil" THEN Outcome(m, 0, FALSE)
    ELSE IF Len(m.keys) = 0 THEN Outcome(m, 0, FALSE)
    ELSE Outcome([m EXCEPT !.keys = << >>, !.values = EmptyMap], 0, FALSE)

OrderedMap_Get(m, key) ==
    IF m.ref = "nil" THEN Outcome(m, [value |-> Zero, ok |-> FALSE], TRUE)
    ELSE IF Len(m.keys) = 0 THEN Outcome(m, [value |-> Zero, ok |-> FALSE], FALSE)
    ELSE IF key \in DOMAIN m.values
         THEN Outcome(m, [value |-> m.values[key], ok |-> TRUE], FALSE)
         ELSE Outcome(m, [value |-> Zero, ok |-> FALSE], FALSE)

OrderedMap_Contains(m, key) ==
    IF m.ref = "nil" THEN Outcome(m, FALSE, TRUE)
    ELSE IF Len(m.keys) = 0 THEN Outcome(m, FALSE, FALSE)
    ELSE Outcome(m, BinarySearch(m.keys, key).ok, FALSE)

\* Remove that forgets delete(m.values, key).
OrderedMap_Remove_KeepsValue(m, key) ==
    IF m.ref = "nil" THEN Outcome(m, 0, FALSE)
    ELSE LET bs == BinarySearch(m.keys, key)
         IN IF ~bs.ok THEN Outcome(m, 0, FALSE)
            ELSE Outcome([m EXCEPT !.keys = Delete(m.keys, bs.pos, bs.pos + 1)], 0, FALSE)

OrderedMap_Remove(m, key) ==
    IF m.ref = "nil" THEN Outcome(m, 0, FALSE)
    ELSE LET bs == BinarySearch(m.keys, key)
         IN IF ~bs.ok THEN Outcome(m, 0, FALSE)
            ELSE Outcome([m EXCEPT !.keys = Delete(m.keys, bs.pos, bs.pos + 1),
                                   !.values = MapDelete(m.values, key)], 0, FALSE)

\* Add without the early return on a key that is present: the value is overwritten.
OrderedMap_Add_Overwrites(m, key, value) ==
    IF m.ref = "nil" THEN Outcome(m, 0, FALSE)
    ELSE LET bs == BinarySearch(m.keys, key)
             withKey == IF ~bs.ok THEN [m EXCEPT !.keys = Insert(m.keys, bs.pos, key)]
                        ELSE m
         IN IF m.valuesNil THEN Outcome(withKey, 0, TRUE)
            ELSE Outcome([withKey EXCEPT !.values = MapSet(m.values, key, value)],
                         0, FALSE)

\* The key is inserted before the write to the map, which panics on a nil map.
OrderedMap_Add(m, key, value) ==
    IF m.ref = "nil" THEN Outcome(m, 0, FALSE)
    ELSE LET bs == BinarySearch(m.keys, key)
         IN IF bs.ok THEN Outcome(m, 0, FALSE)
            ELSE LET withKey == [m EXCEPT !.keys = Insert(m.keys, bs.pos, key)]
                 IN IF m.valuesNil THEN Outcome(withKey, 0, TRUE)
                    ELSE Outcome([withKey EXCEPT !.values = MapSet(m.values, key, value)],
                                 0, FALSE)

\* ForceAdd without the test on the search result: the key is always inserted.
OrderedMap_ForceAdd_AlwaysInserts(m, key, value) ==
    IF m.ref = "nil" THEN Outcome(m, 0, FALSE)
    ELSE LET bs == BinarySearch(m.keys, key)
             withKey == [m EXCEPT !.keys = Insert(m.keys, bs.pos, key)]
         IN IF m.valuesNil THEN Outcome(withKey, 0, TRUE)
            ELSE Outcome([withKey EXCEPT !.values = MapSet(m.values, key, value)],
                         0, FALSE)

OrderedMap_ForceAdd(m, key, value) ==
    IF m.ref = "nil" THEN Outcome(m, 0, FALSE)
    ELSE LET bs == BinarySearch(m.keys, key)
             withKey == IF ~bs.ok THEN [m EXCEPT !.keys = Insert(m.keys, bs.pos, key)]
                        ELSE m
         IN IF m.valuesNil THEN Outcome(withKey, 0, TRUE)
            ELSE Outcome([withKey EXCEPT !.values = MapSet(m.values, key, value)],
                         0, FALSE)

\* copy(dst, src) copies min(len(dst), len(src)) elements into dst.
Copy(dst, src) ==
    LET n == IF Len(dst) < Len(src) THEN Len(dst) ELSE Len(src)
    IN [i \in 1..Len(dst) |-> IF i <= n THEN src[i] ELSE dst[i]]

\* make([]K, length, capacity): a fresh slice holding `length` zero keys.
MakeSlice(length, capacity) == [i \in 1..length |-> 0]

\* Keys returns [isNil, fresh, slice]: fresh says the slice has storage of its own.
OrderedMap_Keys(m) ==
    IF m.ref = "nil" THEN Outcome(m, [isNil |-> TRUE, fresh |-> FALSE, slice |-> << >>], TRUE)
    ELSE IF Len(m.keys) = 0
         THEN Outcome(m, [isNil |-> TRUE, fresh |-> FALSE, slice |-> << >>], FALSE)
         ELSE LET keys == MakeSlice(0, Len(m.keys))
              IN Outcome(m, [isNil |-> FALSE, fresh |-> TRUE, slice |-> Copy(keys, m.keys)],
                         FALSE)

\* Map that hands out m.values itself instead of a copy.
OrderedMap_Map_ReturnsOwn(m) ==
    IF m.ref = "nil" THEN Outcome(m, [isNil |-> TRUE, shared |-> FALSE, contents |-> EmptyMap], TRUE)
    ELSE IF Len(m.keys) = 0
         THEN Outcome(m, [isNil |-> TRUE, shared |-> FALSE, contents |-> EmptyMap], FALSE)
         ELSE Outcome(m, [isNil |-> FALSE, shared |-> TRUE, contents |-> m.values], FALSE)

\* Map returns [isNil, shared, contents]: shared says the returned map is the
\* container's own map object rather than a map of its own.
OrderedMap_Map(m) ==
    IF m.ref = "nil" THEN Outcome(m, [isNil |-> TRUE, shared |-> FALSE, contents |-> EmptyMap], TRUE)
    ELSE IF Len(m.keys) = 0
         THEN Outcome(m, [isNil |-> TRUE, shared |-> FALSE, contents |-> EmptyMap], FALSE)
         ELSE Outcome(m, [isNil |-> FALSE, shared |-> FALSE,
                          contents |-> [key \in DOMAIN m.values |-> m.values[key]]], FALSE)

\* Entry returns a closure over a copy of the receiver: empty says which of the
\* two closures it is, keys is the captured key slice.
OrderedMap_Entry(m) ==
    IF m.ref = "nil" THEN Outcome(m, [empty |-> TRUE, keys |-> << >>], TRUE)
    ELSE IF Len(m.keys) = 0 THEN Outcome(m, [empty |-> TRUE, keys |-> << >>], FALSE)
    ELSE Outcome(m, [empty |-> FALSE, keys |-> m.keys], FALSE)

\* m.values[key] inside the closure: the zero value on a miss.
MapIndex(f, key) == IF key \in DOMAIN f THEN f[key] ELSE Zero

\* One turn of the closure's loop at position pos: the pair handed to yield.
Entry_Pair(m, iter, pos) == <<iter.keys[pos + 1], MapIndex(m.values, iter.keys[pos + 1])>>

\* The loop with yield's answer ignored.
Entry_Continues_Always(goOn) == TRUE

\* Whether the closure's loop goes on to a further turn after yield returned goOn.
Entry_Continues(goOn) == goOn

\* --------------------------------------------------------------- EqualSet

\* The Equals methods the element type may have; all are symmetric.
\*   ident: a == b                    class: same a/2 (an equivalence)
\*   nan:   class, but 0 equals nothing, not even itself
\*   near:  |a - b| <= 1 (reflexive, not transitive)
EqKinds == {"ident", "class", "nan", "near"}

Equals(kind, a, b) ==
    CASE kind = "ident" -> a = b
      [] kind = "class" -> (a \div 2) = (b \div 2)
      [] kind = "nan"   -> a # 0 /\ b # 0 /\ (a \div 2) = (b \div 2)
      [] kind = "near"  -> (a - b) \in {-1, 0, 1}

\* ContainsFunc with == in place of the element's Equals.
ContainsFunc_Identity(kind, elems, elem) == \E i \in 1..Len(elems) : elem = elems[i]

\* slices.ContainsFunc(elems, elem.Equals)
ContainsFunc(kind, elems, elem) == \E i \in 1..Len(elems) : Equals(kind, elem, elems[i])

NilEqualSet == [ref |-> "nil", elems |-> << >>]

\* The zero value EqualSet{}: elems is a nil slice, which appends like an empty one.
ZeroEqualSet == [ref |-> "ptr", elems |-> << >>]

NewEqualSet == [ref |-> "ptr", elems |-> << >>]

EqualSet_IsEmpty(s) ==
    IF s.ref = "nil" THEN Outcome(s, FALSE, TRUE)
    ELSE Outcome(s, Len(s.elems) = 0, FALSE)

EqualSet_Size(s) ==
    IF s.ref = "nil" THEN Outcome(s, 0, TRUE)
    ELSE Outcome(s, Len(s.elems), FALSE)

\* Reset that zeroes the elements and forgets to truncate the slice.
EqualSet_Reset_NoTruncate(s) ==
    IF s.ref = "nil" THEN Outcome(s, 0, FALSE)
    ELSE IF Len(s.elems) > 0
         THEN Outcome([s EXCEPT !.elems = [i \in 1..Len(s.elems) |-> 0]], 0, FALSE)
         ELSE Outcome(s, 0, FALSE)

EqualSet_Reset(s) ==
    IF s.ref = "nil" THEN Outcome(s, 0, FALSE)
    ELSE IF Len(s.elems) > 0 THEN Outcome([s EXCEPT !.elems = << >>], 0, FALSE)
    ELSE Outcome(s, 0, FALSE)

EqualSet_Add(kind, s, elem) ==
    IF s.ref = "nil" THEN Outcome(s, 0, FALSE)
    ELSE LET has_element == ContainsFunc(kind, s.elems, elem)
         IN IF ~has_element THEN Outcome([s EXCEPT !.elems = Append(s.elems, elem)], 0, FALSE)
            ELSE Outcome(s, 0, FALSE)

\* The loop of AddMany from index i (0-based) on.
RECURSIVE AddManyLoop(_, _, _, _)
AddManyLoop(kind, selems, elems, i) ==
    IF i < Len(elems)
    THEN LET has_element == ContainsFunc(kind, selems, elems[i + 1])
         IN AddManyLoop(kind,
                        IF ~has_element THEN Append(selems, elems[i + 1]) ELSE selems,
                        elems, i + 1)
    ELSE selems

\* AddMany that tests every input element against the set as it was at the call.
EqualSet_AddMany_Batch(kind, s, elems) ==
    IF s.ref = "nil" \/ Len(elems) = 0 THEN Outcome(s, 0, FALSE)
    ELSE Outcome([s EXCEPT !.elems =
                      s.elems \o SelectSeq(elems, LAMBDA e : ~ContainsFunc(kind, s.elems, e))],
                 0, FALSE)

EqualSet_AddMany(kind, s, elems) ==
    IF s.ref = "nil" \/ Len(elems) = 0 THEN Outcome(s, 0, FALSE)
    ELSE Outcome([s EXCEPT !.elems = AddManyLoop(kind, s.elems, elems, 0)], 0, FALSE)

\* The loop of Union without the membership test: every element is appended.
RECURSIVE UnionLoop_NoCheck(_, _, _, _)
UnionLoop_NoCheck(kind, acc, oelems, i) ==
    IF i < Len(oelems)
    THEN UnionLoop_NoCheck(kind, [elems |-> Append(acc.elems, oelems[i + 1]),
                                  count |-> acc.count + 1], oelems, i + 1)
    ELSE acc

\* The loop of Union counting every element of other, appended or not.
RECURSIVE UnionLoop_CountsAll(_, _, _, _)
UnionLoop_CountsAll(kind, acc, oelems, i) ==
    IF i < Len(oelems)
    THEN LET elem == oelems[i + 1]
         IN UnionLoop_CountsAll(kind,
                                [elems |-> IF ~ContainsFunc(kind, acc.elems, elem)
                                           THEN Append(acc.elems, elem) ELSE acc.elems,
                                 count |-> acc.count + 1],
                                oelems, i + 1)
    ELSE acc

\* The loop of Union over the elements `range other.elems` had when it began;
\* acc is [elems, count].
RECURSIVE UnionLoop(_, _, _, _)
UnionLoop(kind, acc, oelems, i) ==
    IF i < Len(oelems)
    THEN LET elem == oelems[i + 1]
         IN UnionLoop(kind,
                      IF ~ContainsFunc(kind, acc.elems, elem)
                      THEN [elems |-> Append(acc.elems, elem), count |-> acc.count + 1]
                      ELSE acc,
                      oelems, i + 1)
    ELSE acc

\* other is [ref, elems] with ref "nil", "ptr" (another set) or "self" (the
\* receiver itself).  The outcome also carries `other` as it is afterwards.
EqualSet_Union(kind, s, other) ==
    IF s.ref = "nil" \/ other.ref = "nil"
    THEN [m |-> s, ret |-> 0, panic |-> FALSE, other |-> other]
    ELSE LET oelems == IF other.ref = "self" THEN s.elems ELSE other.elems
             acc == UnionLoop(kind, [elems |-> s.elems, count |-> 0], oelems, 0)
             after == [s EXCEPT !.elems = acc.elems]
         IN [m |-> after, ret |-> acc.count, panic |-> FALSE,
             other |-> IF other.ref = "self" THEN [other EXCEPT !.elems = acc.elems]
                       ELSE other]

\* All run to its end with a consumer that always asks for more: what it yields.
\* All returns a closure over the pointer s: empty says which of the two
\* closures it is.  Nothing of the set is read before the closure is called.
EqualSet_All(s) == Outcome(s, [empty |-> s.ref = "nil"], FALSE)

\* What the loop of the closure fn ranges over: s.elems as it is when the
\* closure is called, the range expression being evaluated once.
All_Range(s, fn) == IF fn.empty THEN << >> ELSE s.elems

\* Whether the closure's loop goes on to a further turn after yield returned goOn.
All_Continues(goOn) == goOn

\* The array a run in progress ranges over, after a call that took s.elems
\* from before to after.  An append within the capacity writes into the array,
\* and so does the zeroing of Reset; an append beyond the capacity moves the
\* set to a new array and leaves the run with the old one.  The capacity is
\* at least room; whether an append beyond room moves the set is `moved`.
All_AfterCall(a, before, after, moved) ==
    IF a.state # "yielding" \/ ~a.attached \/ before = after THEN a
    ELSE IF Len(after) > Len(before)
    THEN LET view == [i \in 1..Len(a.view) |->
                         IF i > Len(before) /\ i <= Len(after) THEN after[i] ELSE a.view[i]]
         IN IF Len(after) <= a.room THEN [a EXCEPT !.view = view]
            ELSE IF moved THEN [a EXCEPT !.view = view, !.attached = FALSE, !.room = 0]
            ELSE [a EXCEPT !.view = view, !.room = Len(after)]
    ELSE [a EXCEPT !.view = [i \in 1..Len(a.view) |->
                                IF i <= Len(before) THEN 0 ELSE a.view[i]]]

\* ----------------------------------------------------------------- Unique

\* The inner loop of Unique at index j: st is [slice, top].
RECURSIVE UniqueInner(_, _, _)
UniqueInner(st, elem, j) ==
    IF j < Len(st.slice)
    THEN IF st.slice[j + 1] # elem
         THEN UniqueInner([slice |-> [st.slice EXCEPT ![st.top + 1] = st.slice[j + 1]],
                           top |-> st.top + 1], elem, j + 1)
         ELSE UniqueInner(st, elem, j + 1)
    ELSE st

\* The outer loop of Unique at index i: st is [slice, backing], slice the
\* current (shrinking) slice and backing the whole storage of the argument.
RECURSIVE UniqueOuter(_, _)
UniqueOuter(st, i) ==
    IF i < Len(st.slice) - 1
    THEN LET inner == UniqueInner([slice |-> st.slice, top |-> i + 1], st.slice[i + 1], i + 1)
         IN UniqueOuter([slice   |-> SubSeq(inner.slice, 1, inner.top),
                         backing |-> inner.slice \o SubSeq(st.backing, Len(st.slice) + 1,
                                                           Len(st.backing))], i + 1)
    ELSE st

\* Unique that drops a value only where it follows itself.
Unique_Adjacent(slice) ==
    IF Len(slice) = 0 THEN [isNil |-> TRUE, slice |-> << >>, backing |-> slice]
    ELSE LET keep == {i \in 1..Len(slice) : i = 1 \/ slice[i] # slice[i - 1]}
             out == [k \in 1..Cardinality(keep) |->
                        slice[CHOOSE i \in keep : Cardinality({j \in keep : j <= i}) = k]]
         IN [isNil |-> FALSE, slice |-> out,
             backing |-> out \o SubSeq(slice, Len(out) + 1, Len(slice))]

\* Unique returns [isNil, slice, backing]: backing is what the argument's
\* storage holds after the call.
Unique(slice) ==
    IF Len(slice) = 0 THEN [isNil |-> TRUE, slice |-> << >>, backing |-> slice]
    ELSE LET st == UniqueOuter([slice |-> slice, backing |-> slice], 0)
         IN [isNil |-> FALSE, slice |-> st.slice, backing |-> st.backing]

\* ---------------------------------------------------------------- SeenSet

NilSeenSet == [ref |-> "nil", tableNil |-> TRUE, table |-> {}]

\* The zero value SeenSet{}: table is a nil map.
ZeroSeenSet == [ref |-> "ptr", tableNil |-> TRUE, table |-> {}]

NewSeenSet == [ref |-> "ptr", tableNil |-> FALSE, table |-> {}]

SeenSet_IsEmpty(sm) ==
    IF sm.ref = "nil" THEN Outcome(sm, FALSE, TRUE)
    ELSE Outcome(sm, Cardinality(sm.table) = 0, FALSE)

SeenSet_Size(sm) ==
    IF sm.ref = "nil" THEN Outcome(sm, 0, TRUE)
    ELSE Outcome(sm, Cardinality(sm.table), FALSE)

\* Reset with its test inverted: a table that holds something is left alone.
SeenSet_Reset_KeepsTable(sm) ==
    IF sm.ref = "nil" THEN Outcome(sm, 0, FALSE)
    ELSE IF Cardinality(sm.table) = 0 THEN Outcome([sm EXCEPT !.table = {}], 0, FALSE)
    ELSE Outcome(sm, 0, FALSE)

SeenSet_Reset(sm) ==
    IF sm.ref = "nil" THEN Outcome(sm, 0, FALSE)
    ELSE IF Cardinality(sm.table) > 0 THEN Outcome([sm EXCEPT !.table = {}], 0, FALSE)
    ELSE Outcome(sm, 0, FALSE)

\* See without the test for a value already seen.
SeenSet_See_NoCheck(sm, v) ==
    IF sm.ref = "nil" THEN Outcome(sm, FALSE, FALSE)
    ELSE IF sm.tableNil THEN Outcome(sm, FALSE, TRUE)
    ELSE Outcome([sm EXCEPT !.table = sm.table \cup {v}], TRUE, FALSE)

SeenSet_See(sm, v) ==
    IF sm.ref = "nil" THEN Outcome(sm, FALSE, FALSE)
    ELSE IF v \in sm.table THEN Outcome(sm, FALSE, FALSE)
    ELSE IF sm.tableNil THEN Outcome(sm, FALSE, TRUE)
    ELSE Outcome([sm EXCEPT !.table = sm.table \cup {v}], TRUE, FALSE)

SeenSet_SetSeen(sm, v) ==
    IF sm.ref = "nil" THEN Outcome(sm, 0, FALSE)
    ELSE IF v \in sm.table THEN Outcome(sm, 0, FALSE)
    ELSE IF sm.tableNil THEN Outcome(sm, 0, TRUE)
    ELSE Outcome([sm EXCEPT !.table = sm.table \cup {v}], 0, FALSE)

SeenSet_Has(sm, v) ==
    IF sm.ref = "nil" THEN Outcome(sm, FALSE, TRUE)
    ELSE Outcome(sm, v \in sm.table, FALSE)

\* The first loop stopping one element early.
RECURSIVE FilterLoop_DropsLast(_, _, _, _, _)
FilterLoop_DropsLast(table, elems, want, slice, i) ==
    IF i < Len(elems) - 1
    THEN LET ok == elems[i + 1] \in table
         IN FilterLoop_DropsLast(table, elems, want,
                                 IF ok = want THEN Append(slice, elems[i + 1]) ELSE slice,
                                 i + 1)
    ELSE slice

\* The first loop of FilterSeen (want = TRUE) and FilterNotSeen (want = FALSE).
RECURSIVE FilterLoop(_, _, _, _, _)
FilterLoop(table, elems, want, slice, i) ==
    IF i < Len(elems)
    THEN LET ok == elems[i + 1] \in table
         IN FilterLoop(table, elems, want,
                       IF ok = want THEN Append(slice, elems[i + 1]) ELSE slice, i + 1)
    ELSE slice

\* FilterSeen filtering into elems[:0], the storage of its argument.
SeenSet_FilterSeen_InPlace(sm, elems) ==
    IF sm.ref = "nil" THEN Outcome(sm, [isNil |-> TRUE, slice |-> << >>, input |-> elems], TRUE)
    ELSE LET slice == FilterLoop(sm.table, elems, TRUE, << >>, 0)
             u == Unique(slice)
         IN Outcome(sm, [isNil |-> u.isNil, slice |-> u.slice,
                         input |-> u.backing \o SubSeq(elems, Len(slice) + 1, Len(elems))],
                    FALSE)

\* FilterSeen returns [isNil, slice, input]: input is the caller's elems after
\* the call.  Unique works on the slice made here, not on elems.
SeenSet_FilterSeen(sm, elems) ==
    IF sm.ref = "nil" THEN Outcome(sm, [isNil |-> TRUE, slice |-> << >>, input |-> elems], TRUE)
    ELSE LET slice == FilterLoop(sm.table, elems, TRUE, << >>, 0)
             u == Unique(slice)
         IN Outcome(sm, [isNil |-> u.isNil, slice |-> u.slice, input |-> elems], FALSE)

\* FilterNotSeen without the call of Unique.
SeenSet_FilterNotSeen_NoUnique(sm, elems) ==
    IF sm.ref = "nil" THEN Outcome(sm, [isNil |-> TRUE, slice |-> << >>, input |-> elems], TRUE)
    ELSE LET slice == FilterLoop(sm.table, elems, FALSE, << >>, 0)
         IN Outcome(sm, [isNil |-> FALSE, slice |-> slice, input |-> elems], FALSE)

SeenSet_FilterNotSeen(sm, elems) ==
    IF sm.ref = "nil" THEN Outcome(sm, [isNil |-> TRUE, slice |-> << >>, input |-> elems], TRUE)
    ELSE LET slice == FilterLoop(sm.table, elems, FALSE, << >>, 0)
             u == Unique(slice)
         IN Outcome(sm, [isNil |-> u.isNil, slice |-> u.slice, input |-> elems], FALSE)

\* ---------------------------------------------------------------- actions

Containers == [om |-> om, es |-> es, ss |-> ss]

NoCall == [op |-> "new"]
NoSnap == [state |-> "none", shared |-> FALSE, contents |-> EmptyMap]
NoIter == [state |-> "none", empty |-> TRUE, keys |-> << >>, attached |-> FALSE,
           room |-> 0, touched |-> FALSE, pos |-> 0,
           out |-> << >>, stoppedAt |-> -1, run |-> 0]

NoAll == [state |-> "none", empty |-> TRUE, view |-> << >>, attached |-> FALSE,
          room |-> 0, pos |-> 0, out |-> << >>, run |-> 0]

\* What the caller reads in the map Map returned.
SnapContents == IF snap.shared THEN om.values ELSE snap.contents

\* The closure of Entry holds a copy of the map: its key slice (array, length
\* and capacity as they were at the call of Entry) and its values map, both
\* shared with the map.  iter.keys is what that slice reads.  A call that took
\* m.keys from before to after changes it: slices.Insert within the capacity
\* shifts the keys inside the array, beyond it the map moves to a new array
\* and the closure keeps the old one; slices.Delete shifts inside the array
\* and clears the slot it frees; Reset only shortens m.keys.  The capacity is
\* at least room; whether an Insert beyond room moves the map is `moved`.
Entry_AfterCall(iter, before, after, reset, moved) ==
    IF iter.state = "none" \/ iter.empty \/ ~iter.attached \/ reset \/ before = after
    THEN iter
    ELSE IF Len(after) = Len(before) + 1
    THEN LET view == [j \in 1..Len(iter.keys) |->
                         IF j <= Len(after) THEN after[j] ELSE iter.keys[j]]
         IN IF Len(after) <= iter.room THEN [iter EXCEPT !.keys = view]
            ELSE IF moved THEN [iter EXCEPT !.attached = FALSE, !.room = 0]
            ELSE [iter EXCEPT !.keys = view, !.room = Len(after)]
    ELSE IF Len(after) = Len(before) - 1
    THEN [iter EXCEPT !.keys = [j \in 1..Len(iter.keys) |->
                                   IF j <= Len(after) THEN after[j]
                                   ELSE IF j = Len(before) THEN 0
                                   ELSE iter.keys[j]]]
    ELSE iter

\* Whether the map has been changed since Entry was called.
Entry_Touched(iter, m, after) ==
    [iter EXCEPT !.touched = iter.touched \/ (iter.state # "none" /\ after # m)]

\* A call c on the OrderedMap with outcome o, the closure of Entry being one
\* of iters afterwards.
OMCall(c, o, iters) ==
    /\ ~panicked
    /\ om' = o.m
    /\ ret' = o.ret
    /\ panicked' = o.panic
    /\ call' = c
    /\ pre' = Containers
    /\ it' \in iters
    /\ UNCHANGED <<es, ss, eqKind, snap, input, held, seeHist, all>>

\* A call c on the OrderedMap with outcome o.  The closure returned by Entry
\* stays usable and reads the storage the call has changed.
OMStep(c, o) ==
    OMCall(c, o, {Entry_Touched(Entry_AfterCall(it, om.keys, o.m.keys,
                                                c.op = "OrderedMap.Reset", moved),
                                om, o.m) : moved \in BOOLEAN})

OM_IsEmpty == OMStep([op |-> "OrderedMap.IsEmpty"], OrderedMap_IsEmpty(om))

OM_Size == OMStep([op |-> "OrderedMap.Size"], OrderedMap_Size(om))

OM_Reset == OMStep([op |-> "OrderedMap.Reset"], OrderedMap_Reset(om))

OM_Get ==
    \E key \in Key :
        OMStep([op |-> "OrderedMap.Get", key |-> key], OrderedMap_Get(om, key))

OM_Contains ==
    \E key \in Key :
        OMStep([op |-> "OrderedMap.Contains", key |-> key], OrderedMap_Contains(om, key))

OM_Remove ==
    \E key \in Key :
        OMStep([op |-> "OrderedMap.Remove", key |-> key], OrderedMap_Remove(om, key))

OM_Add ==
    \E key \in Key, value \in Value :
        OMStep([op |-> "OrderedMap.Add", key |-> key, value |-> value],
               OrderedMap_Add(om, key, value))

OM_ForceAdd ==
    \E key \in Key, value \in Value :
        OMStep([op |-> "OrderedMap.ForceAdd", key |-> key, value |-> value],
               OrderedMap_ForceAdd(om, key, value))

OM_Keys == OMStep([op |-> "OrderedMap.Keys"], OrderedMap_Keys(om))

\* A caller doing m.Add(key, value); m.Remove(key); m.Size() in a row.
\* A call that panics ends the sequence: nothing after it runs.  A closure of
\* Entry sees the effect of Add and then that of Remove, each a call of its own.
OM_AddThenRemove ==
    \E key \in Key, value \in Value :
        LET added == OrderedMap_Add(om, key, value)
            removed == IF added.panic THEN added ELSE OrderedMap_Remove(added.m, key)
            size == IF removed.panic THEN Outcome(removed.m, 0, TRUE)
                    ELSE OrderedMap_Size(removed.m)
        IN OMCall([op |-> "OrderedMap.Add;Remove", key |-> key, value |-> value],
                  Outcome(removed.m, size.ret, size.panic),
                  {Entry_Touched(
                       Entry_AfterCall(
                           Entry_Touched(
                               Entry_AfterCall(it, om.keys, added.m.keys, FALSE, moved),
                               om, added.m),
                           added.m.keys, removed.m.keys, FALSE, FALSE),
                       added.m, removed.m) : moved \in BOOLEAN})

\* m.Map(), the caller keeping the returned map.
OM_Map ==
    LET o == OrderedMap_Map(om)
    IN /\ ~panicked
       /\ om' = o.m
       /\ ret' = o.ret
       /\ panicked' = o.panic
       /\ call' = [op |-> "OrderedMap.Map"]
       /\ pre' = Containers
       /\ snap' = IF o.panic THEN NoSnap
                  ELSE [state |-> IF o.ret.isNil THEN "nil" ELSE "map",
                        shared |-> o.ret.shared, contents |-> o.ret.contents]
       /\ UNCHANGED <<es, ss, eqKind, it, input, held, seeHist, all>>

\* The caller writes snapshot[key] = value into the map Map returned.
Caller_WriteSnap ==
    \E key \in Key, value \in Value :
        /\ ~panicked
        /\ snap.state = "map"
        /\ IF snap.shared
           THEN /\ om' = [om EXCEPT !.values = MapSet(om.values, key, value)]
                /\ snap' = snap
           ELSE /\ snap' = [snap EXCEPT !.contents = MapSet(snap.contents, key, value)]
                /\ om' = om
        /\ call' = [op |-> "caller.write", key |-> key, value |-> value]
        /\ pre' = Containers
        /\ ret' = 0
        /\ UNCHANGED <<es, ss, eqKind, it, panicked, input, held, seeHist, all>>

\* The caller does delete(snapshot, key) on the map Map returned.
Caller_DeleteSnap ==
    \E key \in Key :
        /\ ~panicked
        /\ snap.state = "map"
        /\ IF snap.shared
           THEN /\ om' = [om EXCEPT !.values = MapDelete(om.values, key)]
                /\ snap' = snap
           ELSE /\ snap' = [snap EXCEPT !.contents = MapDelete(snap.contents, key)]
                /\ om' = om
        /\ call' = [op |-> "caller.delete", key |-> key]
        /\ pre' = Containers
        /\ ret' = 0
        /\ UNCHANGED <<es, ss, eqKind, it, panicked, input, held, seeHist, all>>

\* m.Entry(), the caller keeping the returned iterator.
OM_Entry ==
    LET o == OrderedMap_Entry(om)
    IN /\ ~panicked
       /\ om' = o.m
       /\ ret' = o.ret
       /\ panicked' = o.panic
       /\ call' = [op |-> "OrderedMap.Entry"]
       /\ pre' = Containers
       /\ it' = IF o.panic THEN NoIter
                ELSE [NoIter EXCEPT !.state = "ready", !.empty = o.ret.empty,
                                    !.keys = o.ret.keys, !.attached = ~o.ret.empty,
                                    !.room = Len(o.ret.keys)]
       /\ UNCHANGED <<es, ss, eqKind, snap, input, held, seeHist, all>>

\* The caller starts a run of the iterator (a for-range over it).
Range_Start ==
    /\ ~panicked
    /\ it.state \in {"ready", "done", "stopped"}
    /\ it.run < MaxRuns
    /\ it' = [it EXCEPT !.state = "running", !.pos = 0, !.out = << >>, !.stoppedAt = -1,
                        !.run = it.run + 1]
    /\ call' = [op |-> "range.start"]
    /\ pre' = Containers
    /\ ret' = 0
    /\ UNCHANGED <<om, es, ss, eqKind, snap, panicked, input, held, seeHist, all>>

\* One turn of the closure's loop: a pair is yielded and the consumer answers goOn.
Range_Yield ==
    \E goOn \in BOOLEAN :
        /\ ~panicked
        /\ it.state = "running"
        /\ ~it.empty
        /\ it.pos < Len(it.keys)
        /\ it' = [it EXCEPT !.out = Append(it.out, Entry_Pair(om, it, it.pos)),
                            !.pos = it.pos + 1,
                            !.state = IF Entry_Continues(goOn) THEN "running" ELSE "stopped",
                            !.stoppedAt = IF goOn \/ it.stoppedAt # -1 THEN it.stoppedAt
                                          ELSE Len(it.out) + 1]
        /\ call' = [op |-> "range.yield", goOn |-> goOn]
        /\ pre' = Containers
        /\ ret' = Entry_Pair(om, it, it.pos)
        /\ UNCHANGED <<om, es, ss, eqKind, snap, panicked, input, held, seeHist, all>>

\* The closure's loop has no key left (or is the empty closure) and returns.
Range_End ==
    /\ ~panicked
    /\ it.state = "running"
    /\ it.empty \/ it.pos >= Len(it.keys)
    /\ it' = [it EXCEPT !.state = "done"]
    /\ call' = [op |-> "range.end"]
    /\ pre' = Containers
    /\ ret' = 0
    /\ UNCHANGED <<om, es, ss, eqKind, snap, panicked, input, held, seeHist, all>>

\* A call c on the EqualSet with outcome o.  It may fall into a run of the
\* iterator, made by the consumer between two elements.
ESStep(c, o) ==
    /\ ~panicked
    /\ Len(o.m.elems) <= MaxElems
    /\ es' = o.m
    /\ ret' = o.ret
    /\ panicked' = o.panic
    /\ call' = c
    /\ pre' = Containers
    /\ all' \in {All_AfterCall(all, es.elems, o.m.elems, moved) : moved \in BOOLEAN}
    /\ UNCHANGED <<om, ss, eqKind, snap, it, input, held, seeHist>>

\* The element sequences an EqualSet built by its own operations can hold
\* (Equals being symmetric): those with no two positions Equals.
NoDuplicates(kind, elems) ==
    \A i, j \in 1..Len(elems) : i # j => ~Equals(kind, elems[i], elems[j])

\* The sets handed to Union: nil, the receiver itself, or another set.
Others(kind) ==
    {[ref |-> "nil", elems |-> << >>], [ref |-> "self", elems |-> << >>]}
    \cup {[ref |-> "ptr", elems |-> q] :
            q \in {x \in SeqUpTo(Elem, MaxInput) : NoDuplicates(kind, x)}}

ES_IsEmpty == ESStep([op |-> "EqualSet.IsEmpty"], EqualSet_IsEmpty(es))

ES_Size == ESStep([op |-> "EqualSet.Size"], EqualSet_Size(es))

ES_Reset == ESStep([op |-> "EqualSet.Reset"], EqualSet_Reset(es))

ES_Add ==
    \E elem \in Elem :
        ESStep([op |-> "EqualSet.Add", elem |-> elem], EqualSet_Add(eqKind, es, elem))

ES_AddMany ==
    \E elems \in SeqUpTo(Elem, MaxInput) :
        ESStep([op |-> "EqualSet.AddMany", elems |-> elems],
               EqualSet_AddMany(eqKind, es, elems))

ES_Union ==
    \E other \in Others(eqKind) :
        LET o == EqualSet_Union(eqKind, es, other)
        IN ESStep([op |-> "EqualSet.Union", other |-> other, otherAfter |-> o.other], o)

\* s.All(), the caller keeping the returned closure.
ES_All ==
    LET o == EqualSet_All(es)
    IN /\ ~panicked
       /\ es' = o.m
       /\ ret' = o.ret
       /\ panicked' = o.panic
       /\ call' = [op |-> "EqualSet.All"]
       /\ pre' = Containers
       /\ all' = [NoAll EXCEPT !.state = "ready", !.empty = o.ret.empty]
       /\ UNCHANGED <<om, ss, eqKind, snap, it, input, held, seeHist>>

\* The caller calls the closure (a for-range over it): the loop takes s.elems
\* and, if there is one, hands the first element to yield.
All_Start ==
    /\ ~panicked
    /\ all.state \in {"ready", "done", "stopped"}
    /\ all.run < MaxRuns
    /\ LET over == All_Range(es, all)
       IN all' = IF Len(over) = 0
                 THEN [all EXCEPT !.state = "done", !.view = << >>, !.attached = FALSE,
                                  !.room = 0, !.pos = 0, !.out = << >>, !.run = all.run + 1]
                 ELSE [all EXCEPT !.state = "yielding", !.view = over, !.attached = TRUE,
                                  !.room = Len(over), !.pos = 1, !.out = <<over[1]>>,
                                  !.run = all.run + 1]
    /\ call' = [op |-> "all.start"]
    /\ pre' = Containers
    /\ ret' = 0
    /\ UNCHANGED <<om, es, ss, eqKind, snap, it, panicked, input, held, seeHist>>

\* yield returns goOn to the closure's loop: the loop returns, or reads the
\* next element of the array it ranges over and hands it to yield, or ends.
All_Resume ==
    \E goOn \in BOOLEAN :
        /\ ~panicked
        /\ all.state = "yielding"
        /\ all' = IF ~All_Continues(goOn)
                  THEN [all EXCEPT !.state = "stopped", !.view = << >>,
                                   !.attached = FALSE, !.room = 0]
                  ELSE IF all.pos < Len(all.view)
                  THEN [all EXCEPT !.pos = all.pos + 1,
                                   !.out = Append(all.out, all.view[all.pos + 1])]
                  ELSE [all EXCEPT !.state = "done", !.view = << >>,
                                   !.attached = FALSE, !.room = 0]
        /\ call' = [op |-> "all.yield", goOn |-> goOn]
        /\ pre' = Containers
        /\ ret' = 0
        /\ UNCHANGED <<om, es, ss, eqKind, snap, it, panicked, input, held, seeHist>>

\* A caller doing s.Union(other) twice in a row; ret holds both counts and
\* call.mid the receiver between the two calls.
ES_UnionTwice ==
    \E other \in Others(eqKind) :
        LET first == EqualSet_Union(eqKind, es, other)
            second == EqualSet_Union(eqKind, first.m, first.other)
        IN ESStep([op |-> "EqualSet.Union;Union", other |-> other, mid |-> first.m,
                   otherAfter |-> second.other],
                  Outcome(second.m, [first |-> first.ret, second |-> second.ret],
                          first.panic \/ second.panic))

\* No See since the last Reset: per value, what the first See of it returned
\* ("none" before it) and how many See of it returned true (counted up to 2).
NoSees == [first |-> [v \in Elem |-> "none"], trues |-> [v \in Elem |-> 0]]

\* seeHist after the call c with outcome o; a See that panics returns nothing.
SeeNote(h, c, o) ==
    IF o.panic THEN h
    ELSE IF c.op = "SeenSet.Reset" THEN NoSees
    ELSE IF c.op = "SeenSet.See"
         THEN [first |-> [h.first EXCEPT ![c.v] =
                              IF @ = "none" THEN (IF o.ret THEN "true" ELSE "false") ELSE @],
               trues |-> [h.trues EXCEPT ![c.v] = IF o.ret /\ @ < 2 THEN @ + 1 ELSE @]]
         ELSE h

\* A call c on the SeenSet with outcome o.
SSStep(c, o) ==
    /\ ~panicked
    /\ ss' = o.m
    /\ seeHist' = SeeNote(seeHist, c, o)
    /\ ret' = o.ret
    /\ panicked' = o.panic
    /\ call' = c
    /\ pre' = Containers
    /\ UNCHANGED <<om, es, eqKind, snap, it, input, held, all>>

SS_IsEmpty == SSStep([op |-> "SeenSet.IsEmpty"], SeenSet_IsEmpty(ss))

SS_Size == SSStep([op |-> "SeenSet.Size"], SeenSet_Size(ss))

SS_Reset == SSStep([op |-> "SeenSet.Reset"], SeenSet_Reset(ss))

SS_See == \E v \in Elem : SSStep([op |-> "SeenSet.See", v |-> v], SeenSet_See(ss, v))

SS_SetSeen ==
    \E v \in Elem : SSStep([op |-> "SeenSet.SetSeen", v |-> v], SeenSet_SetSeen(ss, v))

SS_Has == \E v \in Elem : SSStep([op |-> "SeenSet.Has", v |-> v], SeenSet_Has(ss, v))

SS_FilterSeen ==
    \E elems \in SeqUpTo(Elem, MaxInput) :
        SSStep([op |-> "SeenSet.FilterSeen", elems |-> elems], SeenSet_FilterSeen(ss, elems))

SS_FilterNotSeen ==
    \E elems \in SeqUpTo(Elem, MaxInput) :
        SSStep([op |-> "SeenSet.FilterNotSeen", elems |-> elems],
               SeenSet_FilterNotSeen(ss, elems))

\* A call c on the SeenSet with the caller's slice `input` as its argument and
\* outcome o; inputAfter is what the caller's slice holds afterwards.
SliceStep(c, o, inputAfter) ==
    /\ ~panicked
    /\ ss' = o.m
    /\ ret' = o.ret
    /\ panicked' = o.panic
    /\ call' = c
    /\ pre' = Containers
    /\ input' = inputAfter
    /\ UNCHANGED <<om, es, eqKind, snap, it, held, seeHist, all>>

Slice_FilterSeen ==
    LET o == SeenSet_FilterSeen(ss, input)
    IN SliceStep([op |-> "SeenSet.FilterSeen", elems |-> input], o, o.ret.input)

Slice_FilterNotSeen ==
    LET o == SeenSet_FilterNotSeen(ss, input)
    IN SliceStep([op |-> "SeenSet.FilterNotSeen", elems |-> input], o, o.ret.input)

\* A caller doing sm.FilterSeen(xs) and then sm.FilterNotSeen(xs) on the same slice.
Slice_FilterBoth ==
    LET seen == SeenSet_FilterSeen(ss, input)
        notSeen == SeenSet_FilterNotSeen(seen.m, seen.ret.input)
    IN SliceStep([op |-> "SeenSet.FilterSeen;FilterNotSeen", elems |-> input],
                 Outcome(notSeen.m, [seen |-> seen.ret, notSeen |-> notSeen.ret],
                         seen.panic \/ notSeen.panic),
                 notSeen.ret.input)

\* internal.Unique(xs) on the caller's slice, which it compacts in place.
Slice_Unique ==
    /\ call.op = "new"
    /\ LET u == Unique(input)
       IN SliceStep([op |-> "Unique", slice |-> input], Outcome(ss, u, FALSE), u.backing)

\* internal.Unique applied to the slice the first call returned.
Slice_UniqueAgain ==
    /\ call.op = "Unique"
    /\ LET u == Unique(ret.slice)
       IN SliceStep([op |-> "Unique;Unique", slice |-> call.slice, once |-> ret],
                    Outcome(ss, u, FALSE),
                    u.backing \o SubSeq(input, Len(ret.slice) + 1, Len(input)))

\* The implementations of the Set interface; held names the one behind a
\* variable of type Set.
Implementations == {"OrderedMap", "EqualSet", "SeenSet"}

\* Set.IsEmpty, dispatched to the implementation held.
Set_IsEmpty ==
    IF held = "OrderedMap" THEN OM_IsEmpty
    ELSE IF held = "EqualSet" THEN ES_IsEmpty
    ELSE held = "SeenSet" /\ SS_IsEmpty

\* Set.Size, dispatched to the implementation held.
Set_Size ==
    IF held = "OrderedMap" THEN OM_Size
    ELSE IF held = "EqualSet" THEN ES_Size
    ELSE held = "SeenSet" /\ SS_Size

\* Set.Reset, dispatched to the implementation held.
Set_Reset ==
    IF held = "OrderedMap" THEN OM_Reset
    ELSE IF held = "EqualSet" THEN ES_Reset
    ELSE held = "SeenSet" /\ SS_Reset

\* The owner of the container storing something in it: Add, Add, SetSeen.
Held_Store ==
    IF held = "OrderedMap" THEN OM_Add
    ELSE IF held = "EqualSet" THEN ES_Add
    ELSE held = "SeenSet" /\ SS_SetSeen

\* The owner of the container taking something out of it, where the
\* implementation has a method for that.
Held_Remove == held = "OrderedMap" /\ OM_Remove

\* --------------------------------------------------------- specifications

\* Nothing has been called yet.
Fresh ==
    /\ snap = NoSnap
    /\ it = NoIter
    /\ all = NoAll
    /\ call = NoCall
    /\ pre = Containers
    /\ ret = 0
    /\ panicked = FALSE
    /\ seeHist = NoSees

\* Every container built by its constructor.
Init ==
    /\ om = NewOrderedMap
    /\ es = NewEqualSet
    /\ ss = NewSeenSet
    /\ eqKind = "ident"
    /\ input = << >>
    /\ held = "none"
    /\ Fresh

\* The OrderedMap's methods on a map from NewOrderedMap().
NextOM ==
    \/ OM_Add \/ OM_ForceAdd \/ OM_Remove \/ OM_Reset
    \/ OM_Get \/ OM_Contains \/ OM_Keys \/ OM_Size \/ OM_IsEmpty
    \/ OM_AddThenRemove

SpecOM == Init /\ [][NextOM]_vars

\* Map() and what the caller then does with the returned map.
NextMap ==
    \/ OM_Add \/ OM_ForceAdd \/ OM_Remove \/ OM_Reset
    \/ OM_Map \/ Caller_WriteSnap \/ Caller_DeleteSnap

SpecMap == Init /\ [][NextMap]_vars

\* The keys in D as Add and ForceAdd keep them: in ascending order.
SortedKeys(D) ==
    [k \in 1..Cardinality(D) |-> CHOOSE key \in D : Cardinality({j \in D : j <= key}) = k]

\* The maps Add, ForceAdd, Remove and Reset can make of NewOrderedMap().
BuiltMaps ==
    {[NewOrderedMap EXCEPT !.values = f, !.keys = SortedKeys(DOMAIN f)] :
        f \in UNION {[D -> Value] : D \in SUBSET Key}}

\* Entry() on every map, the runs of the returned iterator, and a Remove
\* that may fall before or into a run.
InitEntry ==
    /\ om \in BuiltMaps
    /\ es = NewEqualSet
    /\ ss = NewSeenSet
    /\ eqKind = "ident"
    /\ input = << >>
    /\ held = "none"
    /\ Fresh

NextEntry == OM_Entry \/ Range_Start \/ Range_Yield \/ Range_End \/ OM_Remove

SpecEntry == InitEntry /\ [][NextEntry]_vars

\* Entry(), the runs of the returned iterator, and every call that changes
\* the map before or during a run.
NextEntryLive ==
    \/ OM_Add \/ OM_ForceAdd \/ OM_Remove \/ OM_Reset
    \/ OM_Entry \/ Range_Start \/ Range_Yield \/ Range_End

SpecEntryLive == Init /\ [][NextEntryLive]_vars

\* The EqualSet's methods on a set from NewEqualSet(), for each Equals.
InitES ==
    /\ om = NewOrderedMap
    /\ es = NewEqualSet
    /\ ss = NewSeenSet
    /\ eqKind \in EqKinds
    /\ input = << >>
    /\ held = "none"
    /\ Fresh

NextES ==
    \/ ES_Add \/ ES_AddMany \/ ES_Union \/ ES_Reset
    \/ ES_IsEmpty \/ ES_Size \/ ES_All \/ ES_UnionTwice

SpecES == InitES /\ [][NextES]_vars

\* The iterator of All, its runs, and the calls a consumer makes during a run.
NextAll == ES_Add \/ ES_AddMany \/ ES_Reset \/ ES_All \/ All_Start \/ All_Resume

SpecAll == Init /\ [][NextAll]_vars

\* The same with the receiver either built by NewEqualSet() or a nil pointer.
InitESNil ==
    /\ om = NewOrderedMap
    /\ es \in {NewEqualSet, NilEqualSet}
    /\ ss = NewSeenSet
    /\ eqKind \in EqKinds
    /\ input = << >>
    /\ held = "none"
    /\ Fresh

SpecESNil == InitESNil /\ [][NextES]_vars

\* Every method on nil pointers and on zero-value containers.
InitNil ==
    /\ om \in {NilOrderedMap, ZeroOrderedMap}
    /\ es \in {NilEqualSet, ZeroEqualSet}
    /\ ss \in {NilSeenSet, ZeroSeenSet}
    /\ eqKind = "ident"
    /\ input = << >>
    /\ held = "none"
    /\ Fresh

NextNil ==
    \/ OM_IsEmpty \/ OM_Size \/ OM_Reset \/ OM_Get \/ OM_Contains \/ OM_Remove
    \/ OM_Add \/ OM_ForceAdd \/ OM_Keys \/ OM_Map \/ OM_Entry
    \/ ES_IsEmpty \/ ES_Size \/ ES_Reset \/ ES_Add \/ ES_AddMany \/ ES_Union \/ ES_All
    \/ SS_IsEmpty \/ SS_Size \/ SS_Reset \/ SS_See \/ SS_SetSeen \/ SS_Has
    \/ SS_FilterSeen \/ SS_FilterNotSeen

SpecNil == InitNil /\ [][NextNil]_vars

\* ----------------------------------------------------------------- claims

StrictlyIncreasing(s) == \A i \in 1..(Len(s) - 1) : s[i] < s[i + 1]

\* The number of positions of s holding x.
Count(s, x) == Cardinality({i \in 1..Len(s) : s[i] = x})

\* C1: from NewOrderedMap(), after any Add, ForceAdd, Remove and Reset, keys is
\* strictly increasing, its elements are exactly the keys of values, and
\* len(keys) == len(values).
C1_KeysIndexInSync ==
    /\ StrictlyIncreasing(om.keys)
    /\ Range(om.keys) = DOMAIN om.values
    /\ Len(om.keys) = Cardinality(DOMAIN om.values)

\* A Remove has taken the middle key out of a three-key map.
C1_Witness ==
    /\ call.op = "OrderedMap.Remove"
    /\ Len(pre.om.keys) = 3
    /\ call.key = pre.om.keys[2]
    /\ Len(om.keys) = 2

\* C2: Keys() returns the keys currently in the map in ascending order, as a
\* slice of its own.
C2_KeysReturnsTheKeys ==
    call.op = "OrderedMap.Keys" =>
        /\ ret.slice = om.keys
        /\ Len(om.keys) > 0 => ret.fresh

\* C3: no call on a nil or a zero-value container panics.
C3_NeverPanics == ~panicked

\* C4: for every key, Contains (binary search over keys) is true exactly when
\* Get (lookup in values) finds the key, and a miss of Get gives the zero value.
C4_ContainsIffGet ==
    \A key \in Key :
        LET got == OrderedMap_Get(om, key).ret
        IN /\ OrderedMap_Contains(om, key).ret = got.ok
           /\ ~got.ok => got.value = Zero

\* A Contains call has answered true on a map that lacks some other key.
C4_Witness ==
    /\ call.op = "OrderedMap.Contains"
    /\ ret = TRUE
    /\ \E key \in Key : ~OrderedMap_Get(om, key).ret.ok
    /\ Len(om.keys) >= 2

\* C5 as claimed: Add(k, v) then Remove(k) leaves Size() as it was before the
\* Add, and k is not among the keys.
C5_AddRemoveRestoresSize ==
    call.op = "OrderedMap.Add;Remove" =>
        /\ ret = Len(pre.om.keys)
        /\ call.key \notin Range(om.keys)

\* C5 amended: Add(k, v) then Remove(k) leaves k out of the keys; Size() is
\* what it was before the Add when k was absent then, and one less when k
\* was present.
C5_AddRemoveSize ==
    call.op = "OrderedMap.Add;Remove" =>
        /\ call.key \notin Range(om.keys)
        /\ ~OrderedMap_Contains(om, call.key).ret
        /\ ret = IF call.key \in Range(pre.om.keys)
                 THEN Len(pre.om.keys) - 1
                 ELSE Len(pre.om.keys)

\* Add then Remove of a key that was absent from a map holding other keys.
C5_Witness ==
    /\ call.op = "OrderedMap.Add;Remove"
    /\ call.key \notin Range(pre.om.keys)
    /\ Len(pre.om.keys) >= 2
    /\ ret = Len(pre.om.keys)

\* C6: Add(k, v) with k present changes neither keys nor any value; with k
\* absent it puts k at its sorted position, binds k to v and leaves every
\* other binding as it was.
C6_AddFirstWriterWins ==
    call.op = "OrderedMap.Add" =>
        IF call.key \in Range(pre.om.keys)
        THEN om = pre.om
        ELSE /\ StrictlyIncreasing(om.keys)
             /\ SelectSeq(om.keys, LAMBDA x : x # call.key) = pre.om.keys
             /\ Count(om.keys, call.key) = 1
             /\ DOMAIN om.values = (DOMAIN pre.om.values) \cup {call.key}
             /\ om.values[call.key] = call.value
             /\ \A key \in DOMAIN pre.om.values : om.values[key] = pre.om.values[key]

\* An Add of a present key with another value than the one it is bound to.
C6_Witness ==
    /\ call.op = "OrderedMap.Add"
    /\ call.key \in Range(pre.om.keys)
    /\ pre.om.values[call.key] # call.value
    /\ om.values[call.key] = pre.om.values[call.key]

\* C7: after ForceAdd(k, v), Get(k) is (v, true), k occurs once in keys, and
\* Size() has grown by 1 if k was absent and is unchanged otherwise.
C7_ForceAddLastWriterWins ==
    call.op = "OrderedMap.ForceAdd" =>
        /\ OrderedMap_Get(om, call.key).ret = [value |-> call.value, ok |-> TRUE]
        /\ Count(om.keys, call.key) = 1
        /\ OrderedMap_Size(om).ret =
               OrderedMap_Size(pre.om).ret + (IF call.key \in Range(pre.om.keys) THEN 0 ELSE 1)

\* A ForceAdd of a present key with another value than the one it was bound to.
C7_Witness ==
    /\ call.op = "OrderedMap.ForceAdd"
    /\ call.key \in Range(pre.om.keys)
    /\ pre.om.values[call.key] # call.value
    /\ Len(om.keys) >= 2

\* C8: Map() returns the full contents when the map has a key and nil when it
\* has none; the caller's writes to the returned map leave the container as it
\* is, and the container's mutations leave the returned map as it is.
C8_MapIsASnapshot ==
    [][/\ call'.op = "OrderedMap.Map" =>
            IF Len(om'.keys) > 0
            THEN ~ret'.isNil /\ SnapContents' = om'.values /\ snap'.state = "map"
            ELSE ret'.isNil /\ snap'.state = "nil"
       /\ call'.op \in {"caller.write", "caller.delete"} => om' = om
       /\ (snap.state = "map" /\ call'.op \in {"OrderedMap.Add", "OrderedMap.ForceAdd",
                                               "OrderedMap.Remove", "OrderedMap.Reset"})
              => SnapContents' = SnapContents
      ]_vars

\* The caller has written to a returned map whose container has since been
\* emptied: the two differ.
C8_Witness ==
    /\ call.op = "caller.write"
    /\ snap.state = "map"
    /\ Len(om.keys) = 0
    /\ Cardinality(DOMAIN SnapContents) >= 2

\* C9: a run of the iterator of Entry() on an unmodified map yields the keys in
\* ascending order from the smallest, each once, with the value Get returns;
\* a run that is not stopped yields every key; after yield returned false
\* nothing more is yielded.
C9_EntryInKeyOrder ==
    (it.state \in {"running", "done", "stopped"} /\ ~it.touched) =>
        /\ Len(it.out) <= Len(om.keys)
        /\ \A i \in 1..Len(it.out) :
               it.out[i] = <<om.keys[i], OrderedMap_Get(om, om.keys[i]).ret.value>>
        /\ \A i, j \in 1..Len(it.out) : i < j => it.out[i][1] < it.out[j][1]
        /\ it.state = "done" => Len(it.out) = Len(om.keys)
        /\ it.stoppedAt # -1 => (it.state = "stopped" /\ Len(it.out) = it.stoppedAt)

\* A second run over a three-key map, stopped by the consumer after the first pair.
C9_Witness ==
    /\ ~it.touched
    /\ it.run = 2
    /\ it.state = "stopped"
    /\ Len(om.keys) = 3
    /\ Len(it.out) = 1
    /\ it.out[1][1] = om.keys[1]

\* C10: from NewEqualSet(), after any Add, AddMany, Union and Reset, no two
\* elements at distinct positions of elems are Equals.
C10_NoTwoEqual == NoDuplicates(eqKind, es.elems)

\* A Union has taken one element of a two-element set and refused the other,
\* which Equals an element already held without being identical to it.
C10_Witness ==
    /\ call.op = "EqualSet.Union"
    /\ call.other.ref = "ptr"
    /\ Len(call.other.elems) = 2
    /\ ret = 1
    /\ \E i \in 1..2 : /\ call.other.elems[i] \notin Range(es.elems)
                       /\ ContainsFunc(eqKind, es.elems, call.other.elems[i])

\* The SeenSet's methods on a set from NewSeenSet() or on a nil pointer.
InitSS ==
    /\ om = NewOrderedMap
    /\ es = NewEqualSet
    /\ ss \in {NewSeenSet, NilSeenSet}
    /\ eqKind = "ident"
    /\ input = << >>
    /\ held = "none"
    /\ Fresh

NextSS ==
    \/ SS_See \/ SS_SetSeen \/ SS_Has \/ SS_Reset
    \/ SS_IsEmpty \/ SS_Size \/ SS_FilterSeen \/ SS_FilterNotSeen

SpecSS == InitSS /\ [][NextSS]_vars

\* FilterSeen and FilterNotSeen on every table and every slice of the caller.
InitFilter ==
    /\ om = NewOrderedMap
    /\ es = NewEqualSet
    /\ ss \in {[NewSeenSet EXCEPT !.table = t] : t \in SUBSET Elem} \cup {ZeroSeenSet}
    /\ eqKind = "ident"
    /\ input \in SeqUpTo(Elem, MaxFilter)
    /\ held = "none"
    /\ Fresh

NextFilter == Slice_FilterSeen \/ Slice_FilterNotSeen \/ Slice_FilterBoth

SpecFilter == InitFilter /\ [][NextFilter]_vars

\* Unique on every slice, and once more on its result.
InitUnique ==
    /\ om = NewOrderedMap
    /\ es = NewEqualSet
    /\ ss = NewSeenSet
    /\ eqKind = "ident"
    /\ input \in SeqUpTo(Elem, MaxUnique)
    /\ held = "none"
    /\ Fresh

NextUnique == Slice_Unique \/ Slice_UniqueAgain

SpecUnique == InitUnique /\ [][NextUnique]_vars

\* One container, made by its constructor or as the zero value of its type,
\* used through the Set interface by its owner.
InitSet ==
    /\ held \in Implementations
    /\ om \in {NewOrderedMap, ZeroOrderedMap}
    /\ es \in {NewEqualSet, ZeroEqualSet}
    /\ ss \in {NewSeenSet, ZeroSeenSet}
    /\ eqKind \in EqKinds
    /\ input = << >>
    /\ Fresh

NextSet == Set_IsEmpty \/ Set_Size \/ Set_Reset \/ Held_Store \/ Held_Remove

SpecSet == InitSet /\ [][NextSet]_vars

\* Every element Equals itself.
Reflexive(kind) == \A a \in Elem : Equals(kind, a, a)

\* C11 as claimed: after A.Union(B), a second A.Union(B) returns 0 and leaves
\* A's elements as they were.
C11_UnionIdempotent ==
    call.op = "EqualSet.Union;Union" =>
        /\ ret.second = 0
        /\ es = call.mid

\* C11 amended: when every element Equals itself, a second A.Union(B) after
\* A.Union(B) returns 0 and leaves A's elements as they were.
C11_UnionIdempotentIfReflexive ==
    (call.op = "EqualSet.Union;Union" /\ Reflexive(eqKind)) =>
        /\ ret.second = 0
        /\ es = call.mid

\* Two Unions in a row with another set, the first of which appended two elements.
C11_Witness ==
    /\ call.op = "EqualSet.Union;Union"
    /\ Reflexive(eqKind)
    /\ call.other.ref = "ptr"
    /\ Len(pre.es.elems) >= 1
    /\ ret.first = 2
    /\ ret.second = 0

\* The elements of Union's argument before and after the call.
UnionOtherBefore == IF call.other.ref = "self" THEN pre.es.elems ELSE call.other.elems
UnionOtherAfter == call.otherAfter.elems

\* What C12 says of the receiver and the count.
UnionCountAndPrefix ==
    IF pre.es.ref = "nil" \/ call.other.ref = "nil"
    THEN ret = 0 /\ es = pre.es
    ELSE /\ ret = EqualSet_Size(es).ret - EqualSet_Size(pre.es).ret
         /\ Len(es.elems) >= Len(pre.es.elems)
         /\ SubSeq(es.elems, 1, Len(pre.es.elems)) = pre.es.elems

\* C12 as claimed: Union returns the number of elements it appended, the
\* receiver's previous elements stay as a prefix, other is unchanged, and with
\* a nil receiver or a nil other the result is 0 and nothing changes.
C12_UnionCountsAppended ==
    call.op = "EqualSet.Union" =>
        /\ UnionCountAndPrefix
        /\ UnionOtherAfter = UnionOtherBefore

\* C12 amended: the same, with other unchanged when it is another set than
\* the receiver; when other is the receiver itself it holds the receiver's new
\* elements.
C12_UnionCountsAppendedOtherApart ==
    call.op = "EqualSet.Union" =>
        /\ UnionCountAndPrefix
        /\ call.other.ref # "self" => UnionOtherAfter = UnionOtherBefore
        /\ call.other.ref = "self" => UnionOtherAfter = es.elems

\* A Union with another set of two elements has appended one of them to a
\* receiver that already held one.
C12_Witness ==
    /\ call.op = "EqualSet.Union"
    /\ call.other.ref = "ptr"
    /\ Len(call.other.elems) = 2
    /\ Len(pre.es.elems) = 1
    /\ ret = 1
    /\ es.elems = Append(pre.es.elems, call.other.elems[2])

\* Add called on each element of elems in order, from index i (0-based) on.
RECURSIVE AddEach(_, _, _, _)
AddEach(kind, s, elems, i) ==
    IF i < Len(elems)
    THEN AddEach(kind, EqualSet_Add(kind, s, elems[i + 1]).m, elems, i + 1)
    ELSE s

\* C13 amended: AddMany(xs) leaves the set as Add(xs[0]), Add(xs[1]), ... in
\* order would, so an element repeated in xs that Equals itself is held at
\* most once.
C13_AddManyIsAddEach ==
    call.op = "EqualSet.AddMany" =>
        /\ es = AddEach(eqKind, pre.es, call.elems, 0)
        /\ \A e \in Range(call.elems) :
               Equals(eqKind, e, e) =>
                   Count(es.elems, e) <= 1

\* C13 as claimed: AddMany(xs) leaves the set as Add(xs[0]), Add(xs[1]), ...
\* in order would, and no element of xs is inserted more than once.
C13_AddManyInsertsOnce ==
    call.op = "EqualSet.AddMany" =>
        /\ es = AddEach(eqKind, pre.es, call.elems, 0)
        /\ \A e \in Range(call.elems) :
               Count(es.elems, e) <= Count(pre.es.elems, e) + 1

\* An AddMany whose input holds the same new element twice has inserted it once.
C13_Witness ==
    /\ call.op = "EqualSet.AddMany"
    /\ Len(call.elems) = 2
    /\ call.elems[1] = call.elems[2]
    /\ Len(pre.es.elems) >= 1
    /\ Len(es.elems) = Len(pre.es.elems) + 1

\* What C14 says of every See: at most one See(v) per period returns true, it
\* is the first one, a value that See was called on is marked, See returns
\* whether the value was unmarked before, and See on nil returns false.
SeeAtMostOnceTrue ==
    /\ \A v \in Elem :
           /\ seeHist.trues[v] <= 1
           /\ seeHist.trues[v] = 1 => seeHist.first[v] = "true"
           /\ (ss.ref = "ptr" /\ seeHist.first[v] # "none") => SeenSet_Has(ss, v).ret
    /\ call.op = "SeenSet.See" =>
           ret = (pre.ss.ref = "ptr" /\ ~SeenSet_Has(pre.ss, call.v).ret)

\* C14 as claimed: in every period between two Resets, the first See(v)
\* returns true and marks v, every later See(v) returns false, and See on a nil
\* container returns false.
C14_FirstSeeTrue ==
    /\ SeeAtMostOnceTrue
    /\ \A v \in Elem :
           (ss.ref = "ptr" /\ seeHist.first[v] # "none") => seeHist.trues[v] = 1

\* C14 amended: in every period between two Resets, See(v) returns true at
\* most once per value: on the first See(v), and only when v was not marked
\* by SetSeen(v) before it in that period; after See(v) v is marked, every
\* later See(v) returns false, and See on a nil container returns false.
C14_SeeTrueAtMostOnce == SeeAtMostOnceTrue

\* A See has returned false for a value whose first See of the period
\* returned true, while another value has been seen too.
C14_Witness ==
    /\ call.op = "SeenSet.See"
    /\ ret = FALSE
    /\ seeHist.first[call.v] = "true"
    /\ seeHist.trues[call.v] = 1
    /\ \E v \in Elem \ {call.v} : seeHist.first[v] = "true"

\* C15: between Resets no call unmarks a value, See and SetSeen leave their
\* value marked, and after Reset no value is marked.
C15_SeenIsMonotonic ==
    [][/\ call'.op # "SeenSet.Reset" =>
            \A v \in Elem : SeenSet_Has(ss, v).ret => SeenSet_Has(ss', v).ret
       /\ (call'.op \in {"SeenSet.See", "SeenSet.SetSeen"} /\ ss.ref = "ptr") =>
            SeenSet_Has(ss', call'.v).ret
       /\ call'.op = "SeenSet.Reset" =>
            \A v \in Elem : ~SeenSet_Has(ss', v).ret
      ]_vars

\* A FilterNotSeen call on a set with two values marked, one by See and one
\* by SetSeen, has left both marked.
C15_Witness ==
    /\ call.op = "SeenSet.FilterNotSeen"
    /\ Len(call.elems) >= 1
    /\ \E v, w \in ss.table :
           /\ seeHist.first[v] = "true"
           /\ seeHist.first[w] = "none"
    /\ ss.table = pre.ss.table

\* The elements of s at the positions in I, in the order of the positions.
At(s, I) ==
    [k \in 1..Cardinality(I) |->
        s[CHOOSE i \in I : Cardinality({j \in I : j <= i}) = k]]

\* The positions of s that hold the first occurrence of their value.
FirstPositions(s) == {i \in 1..Len(s) : \A j \in 1..(i - 1) : s[j] # s[i]}

NoRepeat(s) == \A i, j \in 1..Len(s) : i # j => s[i] # s[j]

\* C16: FilterSeen(xs) is the sequence of first occurrences, in input order,
\* of the values of xs that are marked, FilterNotSeen(xs) the same for those
\* not marked, and no value occurs twice in a result.
C16_FilterFirstOccurrences ==
    /\ call.op = "SeenSet.FilterSeen" =>
           /\ ret.slice = At(call.elems, {i \in FirstPositions(call.elems) :
                                              SeenSet_Has(pre.ss, call.elems[i]).ret})
           /\ NoRepeat(ret.slice)
    /\ call.op = "SeenSet.FilterNotSeen" =>
           /\ ret.slice = At(call.elems, {i \in FirstPositions(call.elems) :
                                              ~SeenSet_Has(pre.ss, call.elems[i]).ret})
           /\ NoRepeat(ret.slice)

\* FilterSeen([a, b, c, a]) with a and b marked and c not has returned [a, b].
C16_Witness ==
    /\ call.op = "SeenSet.FilterSeen"
    /\ Len(call.elems) = 4
    /\ call.elems[1] = call.elems[4]
    /\ call.elems[1] # call.elems[2]
    /\ call.elems[3] \notin ss.table
    /\ ret.slice = <<call.elems[1], call.elems[2]>>

\* C17: the values of FilterSeen(xs) together with the values of
\* FilterNotSeen(xs) are the values of xs.
C17_FiltersCoverInput ==
    call.op = "SeenSet.FilterSeen;FilterNotSeen" =>
        Range(ret.seen.slice) \cup Range(ret.notSeen.slice) = Range(call.elems)

\* Both filters on a slice with a repeated value have each returned something.
C17_Witness ==
    /\ call.op = "SeenSet.FilterSeen;FilterNotSeen"
    /\ ~NoRepeat(call.elems)
    /\ Len(ret.seen.slice) >= 1
    /\ Len(ret.notSeen.slice) >= 1
    /\ Cardinality(Range(call.elems)) = 3

\* C18: Unique(x) is the sequence of first occurrences of the values of x in
\* input order: it has no value twice, holds every value of x, keeps the
\* order of the first occurrences; Unique(Unique(x)) = Unique(x); an empty
\* input gives nil.
C18_UniqueFirstOccurrences ==
    /\ call.op = "Unique" =>
           /\ ret.slice = At(call.slice, FirstPositions(call.slice))
           /\ NoRepeat(ret.slice)
           /\ Range(ret.slice) = Range(call.slice)
           /\ Len(call.slice) = 0 => (ret.isNil /\ Len(ret.slice) = 0)
    /\ call.op = "Unique;Unique" =>
           ret.slice = call.once.slice

\* Unique([2,0,2,1,0,0]) has returned [2,0,1], and Unique of that too.
C18_Witness ==
    /\ call.op = "Unique;Unique"
    /\ call.slice = <<2, 0, 2, 1, 0, 0>>
    /\ call.once.slice = <<2, 0, 1>>
    /\ ret.slice = <<2, 0, 1>>

FilterOps == {"SeenSet.FilterSeen", "SeenSet.FilterNotSeen", "SeenSet.FilterSeen;FilterNotSeen"}

\* C20: FilterSeen and FilterNotSeen change neither the table nor the slice
\* they are given.
C20_FiltersLeaveInputAlone ==
    [][call'.op \in FilterOps => (ss' = ss /\ input' = input /\ input' = call'.elems)]_vars

\* FilterSeen on a slice holding a marked value twice has returned a shorter
\* slice and the caller's slice is as it was.
C20_Witness ==
    /\ call.op = "SeenSet.FilterSeen"
    /\ Len(call.elems) = 4
    /\ call.elems[1] = call.elems[3]
    /\ Len(ret.slice) = 2
    /\ input = call.elems
    /\ ss = pre.ss

\* Nothing comes out of the OrderedMap m by any of its reading methods.
NothingInOrderedMap(m) ==
    /\ \A key \in Key : ~OrderedMap_Get(m, key).ret.ok /\ ~OrderedMap_Contains(m, key).ret
    /\ OrderedMap_Keys(m).ret.slice = << >>
    /\ DOMAIN OrderedMap_Map(m).ret.contents = {}
    /\ OrderedMap_Entry(m).ret.keys = << >>

\* Nothing comes out of the EqualSet s.
NothingInEqualSet(s) == All_Range(s, EqualSet_All(s).ret) = << >>

\* Nothing comes out of the SeenSet sm.
NothingInSeenSet(sm) ==
    /\ \A v \in Elem : ~SeenSet_Has(sm, v).ret
    /\ \A elems \in SeqUpTo(Elem, 1) : SeenSet_FilterSeen(sm, elems).ret.slice = << >>

\* C19: for each container IsEmpty() is true iff Size() = 0, Size() is never
\* negative, and right after Reset(), whatever the state before, IsEmpty()
\* is true and nothing stored before can be read back.
C19_EmptyIffSizeZeroAndResetEmpties ==
    /\ OrderedMap_IsEmpty(om).ret <=> (OrderedMap_Size(om).ret = 0)
    /\ EqualSet_IsEmpty(es).ret <=> (EqualSet_Size(es).ret = 0)
    /\ SeenSet_IsEmpty(ss).ret <=> (SeenSet_Size(ss).ret = 0)
    /\ OrderedMap_Size(om).ret >= 0 /\ EqualSet_Size(es).ret >= 0 /\ SeenSet_Size(ss).ret >= 0
    /\ call.op = "OrderedMap.IsEmpty" => ret = (OrderedMap_Size(om).ret = 0)
    /\ call.op = "EqualSet.IsEmpty" => ret = (EqualSet_Size(es).ret = 0)
    /\ call.op = "SeenSet.IsEmpty" => ret = (SeenSet_Size(ss).ret = 0)
    /\ call.op = "OrderedMap.Size" => ret >= 0 /\ (ret = 0 <=> OrderedMap_IsEmpty(om).ret)
    /\ call.op = "EqualSet.Size" => ret >= 0 /\ (ret = 0 <=> EqualSet_IsEmpty(es).ret)
    /\ call.op = "SeenSet.Size" => ret >= 0 /\ (ret = 0 <=> SeenSet_IsEmpty(ss).ret)
    /\ call.op = "OrderedMap.Reset" =>
           ~panicked /\ OrderedMap_IsEmpty(om).ret /\ NothingInOrderedMap(om)
    /\ call.op = "EqualSet.Reset" =>
           ~panicked /\ EqualSet_IsEmpty(es).ret /\ NothingInEqualSet(es)
    /\ call.op = "SeenSet.Reset" =>
           ~panicked /\ SeenSet_IsEmpty(ss).ret /\ NothingInSeenSet(ss)

\* Reset has emptied an EqualSet that held two elements.
C19_Witness ==
    /\ held = "EqualSet"
    /\ call.op = "EqualSet.Reset"
    /\ Len(pre.es.elems) = 2
    /\ EqualSet_IsEmpty(es).ret
    /\ EqualSet_Size(es).ret = 0
====
